---- MODULE Spec2Model ----
(***************************************************************************)
(* A model of the weekend-tracer path tracer (src/src/*.rs).               *)
(*                                                                         *)
(* Numbers.  The program computes in f64.  The model computes in exact     *)
(* rational arithmetic: a number is a pair <<n, d>> in lowest terms with   *)
(* d > 0, and <<1, 0>> stands for f64::INFINITY.  Square roots are taken   *)
(* only of perfect squares: the inputs of every specification are drawn    *)
(* from sets on which each sqrt of the code is exact.  f64 rounding, NaN   *)
(* and overflow are outside the model.                                     *)
(*                                                                         *)
(* Three specifications share the module:                                  *)
(*   SpecHit    one intersection query: Sphere::hit and HittableList::hit  *)
(*   Spec       the integrator ray_color as a call stack                   *)
(*   SpecImage  the driver's image list, merge_samples and write_ppm       *)
(***************************************************************************)
EXTENDS Integers, Sequences, FiniteSets, TLC

VARIABLES
    \* SpecHit: one query against a HittableList
    list,       \* HittableList.list
    query,      \* [ray, t_min, t_max]: the arguments of hit
    hitOut,     \* what HittableList::hit returned (called = FALSE before)
    sphereOut,  \* what Sphere::hit returned for list[sphereOut.k]
    \* Spec: ray_color
    world,      \* the scene handed to ray_color
    max_depth,  \* the depth of the outermost call (render's max_depth)
    stack,      \* the active invocations of ray_color, outermost first
    result,     \* the color the invocation that returned last has returned
    calls,      \* invocations of ray_color made so far
    queries,    \* calls of world.hit made so far
    scat,       \* the locals of the last Material::scatter call
    \* SpecImage: main's image list
    images,     \* Vec<Image> handed to merge_samples
    coBroadcast,\* whether the linked ndarray co-broadcasts both operands
    merged,     \* outcome of merge_samples
    file,       \* lines written by write_ppm
    \* SpecRender: one call of render
    render,     \* the arguments, loop counters and locals of render
    sample      \* the last call camera.get_ray(u, v): its pixel, u, v and ray

hitVars == <<list, query, hitOut, sphereOut>>
traceVars == <<world, max_depth, stack, result, calls, queries, scat>>
imageVars == <<images, coBroadcast, merged, file>>
renderVars == <<render, sample>>
vars == <<hitVars, traceVars, imageVars, renderVars>>

-----------------------------------------------------------------------------
(* Bounds of the model *)

MaxCoord == 2
MaxRadius == 2
MaxList == 2
MaxDepth == 3
MaxDim == 2
MaxSeed == 1
MaxImages == 2
MaxWidth == 2
MaxHeight == 2
MaxSamples == 2

-----------------------------------------------------------------------------
(* f64 as exact rationals *)

Abs(n) == IF n < 0 THEN -n ELSE n

RECURSIVE Gcd(_, _)
Gcd(a, b) == IF b = 0 THEN a ELSE Gcd(b, a % b)

\* the rational n/d (d # 0) in lowest terms with a positive denominator
Q(n, d) ==
    LET g == Gcd(Abs(n), Abs(d))
        s == IF d < 0 THEN -1 ELSE 1
    IN  <<(s * n) \div g, (s * d) \div g>>

Int2Q(n) == <<n, 1>>
Zero == <<0, 1>>
One == <<1, 1>>
INF == <<1, 0>>

RAdd(x, y) == Q(x[1] * y[2] + y[1] * x[2], x[2] * y[2])
RSub(x, y) == Q(x[1] * y[2] - y[1] * x[2], x[2] * y[2])
RMul(x, y) == Q(x[1] * y[1], x[2] * y[2])
RDiv(x, y) == Q(x[1] * y[2], x[2] * y[1])
RNeg(x) == <<-x[1], x[2]>>
\* a/b < c/d for b, d > 0, by comparing the continued fractions (no products
\* of numerators and denominators, which could leave the integer range)
RECURSIVE FracLt(_, _, _, _)
FracLt(a, b, c, d) ==
    IF a \div b # c \div d THEN a \div b < c \div d
    ELSE IF c % d = 0 THEN FALSE
    ELSE IF a % b = 0 THEN TRUE
    ELSE FracLt(d, c % d, b, a % b)

\* f64 < and <=, with INF = <<1, 0>> above every finite number
RLt(x, y) ==
    IF x[2] = 0 THEN FALSE
    ELSE IF y[2] = 0 THEN TRUE
    ELSE FracLt(x[1], x[2], y[1], y[2])
RLe(x, y) == ~RLt(y, x)
RMin(x, y) == IF RLt(y, x) THEN y ELSE x
RAbs(x) == <<Abs(x[1]), x[2]>>

RECURSIVE RPow(_, _)
RPow(x, k) == IF k = 0 THEN One ELSE RMul(x, RPow(x, k - 1))

\* the largest k in lo..hi with k * k <= n
RECURSIVE SqrtSearch(_, _, _)
SqrtSearch(n, lo, hi) ==
    IF lo >= hi THEN lo
    ELSE LET mid == (lo + hi + 1) \div 2
         IN  IF mid <= n \div mid THEN SqrtSearch(n, mid, hi)
             ELSE SqrtSearch(n, lo, mid - 1)

ISqrt(n) == SqrtSearch(n, 0, n)
IsSquare(n) == n >= 0 /\ ISqrt(n) * ISqrt(n) = n
\* whether f64::sqrt of x is a rational (then RSqrt is that root)
RIsSquare(x) == IsSquare(x[1]) /\ IsSquare(x[2])
\* f64::sqrt; defined on the squares of rationals only
ExactRoot(n) == CHOOSE k \in {ISqrt(n)} : k * k = n
RSqrt(x) == <<ExactRoot(x[1]), ExactRoot(x[2])>>

-----------------------------------------------------------------------------
(* geometry.rs: V3, Ray *)

v3(x, y, z) == <<x, y, z>>
ZeroV == v3(Zero, Zero, Zero)
IntV(x, y, z) == v3(Int2Q(x), Int2Q(y), Int2Q(z))

VAdd(u, v) == v3(RAdd(u[1], v[1]), RAdd(u[2], v[2]), RAdd(u[3], v[3]))
VSub(u, v) == v3(RSub(u[1], v[1]), RSub(u[2], v[2]), RSub(u[3], v[3]))
VScale(k, v) == v3(RMul(k, v[1]), RMul(k, v[2]), RMul(k, v[3]))
VDivS(v, k) == v3(RDiv(v[1], k), RDiv(v[2], k), RDiv(v[3], k))
VNeg(v) == v3(RNeg(v[1]), RNeg(v[2]), RNeg(v[3]))
dot(u, v) == RAdd(RAdd(RMul(u[1], v[1]), RMul(u[2], v[2])), RMul(u[3], v[3]))

length_squared(v) == dot(v, v)
norm(v) == RSqrt(length_squared(v))
unit(v) == VDivS(v, norm(v))

\* Ray::at
at(ray, t) == VAdd(ray.orig, VScale(t, ray.dir))

-----------------------------------------------------------------------------
(* material.rs: the three materials, as one record shape *)

Lambertian(albedo) ==
    [kind |-> "Lambertian", albedo |-> albedo, fuzz |-> Zero, ir |-> Zero]
Metal(albedo, fuzz) ==
    [kind |-> "Metal", albedo |-> albedo, fuzz |-> fuzz, ir |-> Zero]
Dielectric(ir) ==
    [kind |-> "Dielectric", albedo |-> ZeroV, fuzz |-> Zero, ir |-> ir]

-----------------------------------------------------------------------------
(* hittable.rs: HitRecord *)

\* Option<HitRecord>::None, in the record shape of Some(rec)
None ==
    [some |-> FALSE, point |-> ZeroV, normal |-> ZeroV,
     material |-> Lambertian(ZeroV), t |-> Zero, front_face |-> FALSE]

FrontFaceStrict(ray, outward_normal) == RLt(dot(ray.dir, outward_normal), Zero)
\* mutant: the normal is never flipped
FaceNormalNoFlip(ray, outward_normal) ==
    <<outward_normal, FrontFaceStrict(ray, outward_normal)>>

get_face_normal_from_ray(ray, outward_normal) ==
    LET front_face == FrontFaceStrict(ray, outward_normal)
        normal == IF front_face THEN outward_normal ELSE VNeg(outward_normal)
    IN  <<normal, front_face>>

HitRecord_new(ray, outward_normal, point, material, t) ==
    LET nf == get_face_normal_from_ray(ray, outward_normal)
    IN  [some |-> TRUE, point |-> point, normal |-> nf[1],
         material |-> material, t |-> t, front_face |-> nf[2]]

-----------------------------------------------------------------------------
(* geometry.rs: Sphere::hit *)

Sphere(center, radius, material) ==
    [center |-> center, radius |-> radius, material |-> material]

\* the coefficients of the quadratic of Sphere::hit
Quadratic(s, ray) ==
    LET oc == VSub(ray.orig, s.center)
    IN  [a |-> length_squared(ray.dir),
         half_b |-> dot(oc, ray.dir),
         c |-> RSub(length_squared(oc), RMul(s.radius, s.radius))]

\* half_b.powf(2.) - a * c
DiscriminantOf(q) == RSub(RPow(q.half_b, 2), RMul(q.a, q.c))

Discriminant(s, ray) == DiscriminantOf(Quadratic(s, ray))

\* the two roots (-half_b -/+ sq) / a, smaller first, sq = discriminant.sqrt()
RootsOf(q, sq) ==
    <<RDiv(RSub(RNeg(q.half_b), sq), q.a), RDiv(RAdd(RNeg(q.half_b), sq), q.a)>>

Roots(s, ray) == RootsOf(Quadratic(s, ray), RSqrt(Discriminant(s, ray)))

\* mutant: a root equal to t_min is rejected too
OutOfRangeOpenMin(root, t_min, t_max) == RLe(root, t_min) \/ RLt(t_max, root)

\* the condition under which the code rejects a root
OutOfRange(root, t_min, t_max) == RLt(root, t_min) \/ RLt(t_max, root)

\* the record of the accepted root, with point = ray.at(root)
HitAtPoint(s, ray, root, point) ==
    HitRecord_new(ray, VDivS(VSub(point, s.center), s.radius), point,
                  s.material, root)

HitAt(s, ray, root) == HitAtPoint(s, ray, root, at(ray, root))

\* the smaller root if it is accepted, else the larger
SphereHitRoots(s, ray, t_min, t_max, r) ==
    IF ~OutOfRange(r[1], t_min, t_max) THEN HitAt(s, ray, r[1])
    ELSE IF ~OutOfRange(r[2], t_min, t_max) THEN HitAt(s, ray, r[2])
    ELSE None

\* mutant: the larger root is never tried
SphereHitFirstRootOnly(s, ray, t_min, t_max, q, D) ==
    IF RLt(D, Zero) \/ OutOfRange(RootsOf(q, RSqrt(D))[1], t_min, t_max)
    THEN None
    ELSE HitAt(s, ray, RootsOf(q, RSqrt(D))[1])

\* Sphere::hit from the coefficients q and the discriminant D
SphereHitDiscriminant(s, ray, t_min, t_max, q, D) ==
    IF RLt(D, Zero) THEN None
    ELSE SphereHitRoots(s, ray, t_min, t_max, RootsOf(q, RSqrt(D)))

SphereHitQuadratic(s, ray, t_min, t_max, q) ==
    SphereHitDiscriminant(s, ray, t_min, t_max, q, DiscriminantOf(q))

Sphere_hit(s, ray, t_min, t_max) ==
    SphereHitQuadratic(s, ray, t_min, t_max, Quadratic(s, ray))

-----------------------------------------------------------------------------
(* hittable.rs: HittableList::hit *)

RECURSIVE HitLoop(_, _, _, _, _, _)

\* mutant: closest_so_far is never narrowed
HitLoopBodyNoNarrow(l, i, ray, t_min, any_hit, closest_so_far, rec) ==
    IF rec.some
    THEN HitLoop(l, i + 1, ray, t_min, rec, closest_so_far)
    ELSE HitLoop(l, i + 1, ray, t_min, any_hit, closest_so_far)

\* the loop body for l[i], with rec = hittable.hit(ray, t_min, closest_so_far)
HitLoopBody(l, i, ray, t_min, any_hit, closest_so_far, rec) ==
    IF rec.some
    THEN HitLoop(l, i + 1, ray, t_min, rec, rec.t)
    ELSE HitLoop(l, i + 1, ray, t_min, any_hit, closest_so_far)

\* the loop over l[i..], from the loop state (any_hit, closest_so_far)
HitLoop(l, i, ray, t_min, any_hit, closest_so_far) ==
    IF i > Len(l) THEN any_hit
    ELSE HitLoopBody(l, i, ray, t_min, any_hit, closest_so_far,
                     Sphere_hit(l[i], ray, t_min, closest_so_far))

HittableList_hit(l, ray, t_min, t_max) == HitLoop(l, 1, ray, t_min, None, t_max)

-----------------------------------------------------------------------------
(* SpecHit: a HittableList is built, then queried once *)

\* main.rs: the t_min that ray_color passes to world.hit
T_MIN == Q(1, 1000)

MatA == Lambertian(v3(Q(1, 2), Q(1, 2), Q(1, 2)))
MatB == Metal(v3(Q(7, 10), Q(3, 5), Q(1, 2)), Zero)
MatGlass == Dielectric(Q(3, 2))

HitRays ==
    {[orig |-> IntV(x, y, 0), dir |-> d] :
        x \in -MaxCoord..MaxCoord, y \in 0..1,
        d \in {IntV(1, 0, 0), IntV(2, 0, 0), IntV(1, 1, 0)}}

HitBounds == {<<Zero, INF>>, <<T_MIN, INF>>, <<One, Int2Q(3)>>}

\* spheres on the x axis; the two unit spheres at the origin coincide and
\* differ in material only, as the last and third-last spheres of make_world do
HitSpheres ==
    {Sphere(IntV(x, 0, 0), Int2Q(r), MatA) : x \in {0, 2}, r \in 1..MaxRadius}
        \cup {Sphere(IntV(0, 0, 0), One, MatB)}

\* every sqrt that Sphere::hit takes for this sphere and ray is exact
ExactHit(s, ray) ==
    LET D == Discriminant(s, ray) IN RLt(D, Zero) \/ RIsSquare(D)

NotCalled == [called |-> FALSE, k |-> 0, rec |-> None]

HitIdle ==
    /\ list = <<>>
    /\ query = [ray |-> [orig |-> ZeroV, dir |-> IntV(1, 0, 0)],
                t_min |-> Zero, t_max |-> INF]
    /\ hitOut = NotCalled
    /\ sphereOut = NotCalled

NoScatter ==
    [kind |-> "none", some |-> FALSE, att |-> ZeroV,
     ray |-> [orig |-> ZeroV, dir |-> ZeroV], cos_theta |-> Zero,
     reflectance |-> Zero, draw |-> Zero, refracted |-> FALSE]

TraceIdle ==
    /\ world = <<>>
    /\ max_depth = 0
    /\ stack = <<>>
    /\ result = [has |-> FALSE, color |-> ZeroV]
    /\ calls = 0
    /\ queries = 0
    /\ scat = NoScatter

\* Image::new(w, h): Array::from_elem((w, h), Color::black())
Image_new(w, h) ==
    [w |-> w, h |-> h,
     px |-> [p \in (0..(w - 1)) \X (0..(h - 1)) |-> ZeroV]]

Pending == [state |-> "pending", img |-> Image_new(0, 0)]
Panicked == [state |-> "panic", img |-> Image_new(0, 0)]

ImageIdle ==
    /\ images = <<>>
    /\ coBroadcast = FALSE
    /\ merged = Pending
    /\ file = <<>>

\* render has not been called
NotRendering ==
    [width |-> 0, height |-> 0, samples |-> 0, i |-> 0, j |-> 0, n |-> 0,
     color |-> ZeroV, image |-> Image_new(0, 0), returned |-> FALSE]

NoSample ==
    [has |-> FALSE, i |-> 0, j |-> 0, u |-> Zero, v |-> Zero,
     ray |-> [orig |-> ZeroV, dir |-> ZeroV]]

RenderIdle ==
    /\ render = NotRendering
    /\ sample = NoSample

\* HittableList::new, and the query to come
HitInit ==
    /\ list = <<>>
    /\ \E r \in HitRays, b \in HitBounds :
          query = [ray |-> r, t_min |-> b[1], t_max |-> b[2]]
    /\ hitOut = NotCalled
    /\ sphereOut = NotCalled
    /\ TraceIdle
    /\ ImageIdle
    /\ RenderIdle

\* HittableList::add
Add(s) ==
    /\ ~hitOut.called /\ ~sphereOut.called
    /\ Len(list) < MaxList
    /\ ExactHit(s, query.ray)
    /\ list' = Append(list, s)
    /\ UNCHANGED <<query, hitOut, sphereOut, traceVars, imageVars, renderVars>>

\* HittableList::clear
Clear ==
    /\ ~hitOut.called /\ ~sphereOut.called
    /\ list # <<>>
    /\ list' = <<>>
    /\ UNCHANGED <<query, hitOut, sphereOut, traceVars, imageVars, renderVars>>

\* HittableList::hit on the query
CallListHit ==
    /\ ~hitOut.called /\ ~sphereOut.called
    /\ hitOut' = [called |-> TRUE, k |-> 0,
                  rec |-> HittableList_hit(list, query.ray, query.t_min, query.t_max)]
    /\ UNCHANGED <<list, query, sphereOut, traceVars, imageVars, renderVars>>

\* Sphere::hit of the k-th primitive on the query
CallSphereHit(k) ==
    /\ ~hitOut.called /\ ~sphereOut.called
    /\ sphereOut' = [called |-> TRUE, k |-> k,
                     rec |-> Sphere_hit(list[k], query.ray, query.t_min, query.t_max)]
    /\ UNCHANGED <<list, query, hitOut, traceVars, imageVars, renderVars>>

HitNext ==
    \/ \E s \in HitSpheres : Add(s)
    \/ Clear
    \/ CallListHit
    \/ \E k \in 1..Len(list) : CallSphereHit(k)

SpecHit == HitInit /\ [][HitNext]_vars

-----------------------------------------------------------------------------
(* Properties of one intersection query (SpecHit) *)

\* what each primitive reports for the query on its own
PerPrimitive ==
    [k \in 1..Len(list) |->
        Sphere_hit(list[k], query.ray, query.t_min, query.t_max)]

Hitters == {k \in 1..Len(list) : PerPrimitive[k].some}

\* every reordering of the list
Reorderings ==
    {[i \in 1..Len(list) |-> list[f[i]]] : f \in Permutations(1..Len(list))}

QueryHit(l) == HittableList_hit(l, query.ray, query.t_min, query.t_max)

\* C1: HittableList::hit returns None exactly when no primitive reports a hit
\* for (ray, t_min, t_max), and otherwise a record whose t is the least of
\* the t values the primitives report for (ray, t_min, t_max).
C1_NearestHit ==
    hitOut.called =>
        /\ hitOut.rec.some <=> Hitters # {}
        /\ Hitters # {} =>
              /\ \A k \in Hitters : RLe(hitOut.rec.t, PerPrimitive[k].t)
              /\ \E k \in Hitters : hitOut.rec.t = PerPrimitive[k].t

\* two primitives are hit at different t, the nearer one first in the list, so
\* the second is tested against the narrowed bound
C1_Witness ==
    /\ hitOut.called
    /\ Len(list) = 2
    /\ Hitters = {1, 2}
    /\ RLt(PerPrimitive[1].t, PerPrimitive[2].t)
    /\ hitOut.rec.t = PerPrimitive[1].t

\* C2 (as claimed): every reordering of the list yields the same hit record,
\* also when two primitives are hit at the same t.
C2_OrderIrrelevant ==
    hitOut.called => \A l \in Reorderings : QueryHit(l) = hitOut.rec

\* the record the list returns on a tie: that of the last primitive, in list
\* order, that reports the least t
LastNearest(l) ==
    LET per == [k \in 1..Len(l) |->
                   Sphere_hit(l[k], query.ray, query.t_min, query.t_max)]
        hit == {k \in 1..Len(l) : per[k].some}
        near == {k \in hit : \A j \in hit : RLe(per[k].t, per[j].t)}
    IN  IF hit = {} THEN None
        ELSE per[CHOOSE k \in near : \A j \in near : j <= k]

TiedNearest ==
    \E i, j \in Hitters :
        /\ i # j
        /\ PerPrimitive[i].t = hitOut.rec.t
        /\ PerPrimitive[j].t = hitOut.rec.t
        /\ PerPrimitive[i] # PerPrimitive[j]

\* C2 (amended): every reordering of the list yields a hit exactly when the
\* list does, with the same t; the whole record is the same unless two
\* primitives report the least t with different records, and then each order
\* returns the record of the last of them in that order.
C2_OrderIrrelevantUpToTies ==
    hitOut.called =>
        \A l \in Reorderings :
            LET r == QueryHit(l)
            IN  /\ r.some = hitOut.rec.some
                /\ r.t = hitOut.rec.t
                /\ ~TiedNearest => r = hitOut.rec
                /\ r = LastNearest(l)

\* two different primitives are hit, at different t, and the list was queried
C2_Witness ==
    /\ hitOut.called
    /\ Len(list) = 2
    /\ Hitters = {1, 2}
    /\ RLt(PerPrimitive[2].t, PerPrimitive[1].t)
    /\ hitOut.rec = PerPrimitive[2]

InRange(root) == RLe(query.t_min, root) /\ RLe(root, query.t_max)

OnSphere(s, p) ==
    length_squared(VSub(p, s.center)) = RMul(s.radius, s.radius)

StrictlyInside(s, p) ==
    RLt(length_squared(VSub(p, s.center)), RMul(s.radius, s.radius))

\* C3: Sphere::hit returns None when the discriminant is negative; otherwise
\* the smaller root if it is in the accepted range, else the larger root if
\* that one is, else None; the hit point lies on the sphere.  A ray starting
\* strictly inside is hit at the larger root, a tangent ray at its one root.
C3_SphereHitRoots ==
    sphereOut.called =>
        LET s == list[sphereOut.k]
            rec == sphereOut.rec
            D == Discriminant(s, query.ray)
            r == Roots(s, query.ray)
        IN  IF RLt(D, Zero) THEN rec = None
            ELSE /\ RLe(r[1], r[2])
                 /\ OnSphere(s, at(query.ray, r[1]))
                 /\ OnSphere(s, at(query.ray, r[2]))
                 /\ IF InRange(r[1]) THEN rec.some /\ rec.t = r[1]
                    ELSE IF InRange(r[2]) THEN rec.some /\ rec.t = r[2]
                    ELSE rec = None
                 /\ rec.some => rec.point = at(query.ray, rec.t)
                 /\ (StrictlyInside(s, query.ray.orig) /\ InRange(r[2])) =>
                        /\ RLt(r[1], Zero) /\ RLt(Zero, r[2])
                        /\ rec.some /\ rec.t = r[2]
                 /\ (D = Zero /\ InRange(r[1])) => rec.some /\ rec.t = r[1]

\* a ray that starts strictly inside the sphere is hit at the exit point
C3_Witness ==
    /\ sphereOut.called
    /\ StrictlyInside(list[sphereOut.k], query.ray.orig)
    /\ sphereOut.rec.some
    /\ sphereOut.rec.t = Roots(list[sphereOut.k], query.ray)[2]
    /\ RLt(Roots(list[sphereOut.k], query.ray)[1], Zero)

\* C11 (as claimed): every record Sphere::hit returns has t_min < t <= t_max,
\* so a root equal to t_min is rejected.
C11_HalfOpenRange ==
    (sphereOut.called /\ sphereOut.rec.some) =>
        RLt(query.t_min, sphereOut.rec.t) /\ RLe(sphereOut.rec.t, query.t_max)

\* C11 (amended): every record Sphere::hit returns has t_min <= t <= t_max;
\* a smaller root equal to t_min is accepted, and when the smaller root is
\* outside [t_min, t_max] a larger root equal to t_min or t_max is accepted.
C11_ClosedRange ==
    (sphereOut.called /\ ~RLt(Discriminant(list[sphereOut.k], query.ray), Zero)) =>
        LET rec == sphereOut.rec
            r == Roots(list[sphereOut.k], query.ray)
        IN  /\ rec.some => RLe(query.t_min, rec.t) /\ RLe(rec.t, query.t_max)
            /\ (r[1] = query.t_min /\ RLe(r[1], query.t_max)) =>
                  rec.some /\ rec.t = r[1]
            /\ (OutOfRange(r[1], query.t_min, query.t_max)
                  /\ r[2] \in {query.t_min, query.t_max}
                  /\ RLe(query.t_min, query.t_max)) =>
                  rec.some /\ rec.t = r[2]

\* a hit returned at the smaller root, which equals t_min
C11_Witness ==
    /\ sphereOut.called
    /\ sphereOut.rec.some
    /\ sphereOut.rec.t = query.t_min
    /\ sphereOut.rec.t = Roots(list[sphereOut.k], query.ray)[1]
    /\ RLt(sphereOut.rec.t, Roots(list[sphereOut.k], query.ray)[2])

\* the outward normal (point - center) / radius of a record of sphere s
OutwardNormal(s, rec) == VDivS(VSub(rec.point, s.center), s.radius)

\* C4 (as claimed): normal . direction <= 0, and front_face is true exactly
\* when outward_normal . direction <= 0, also when the dot product is 0.
C4_FrontFaceLoose ==
    (sphereOut.called /\ sphereOut.rec.some) =>
        LET rec == sphereOut.rec
            out == OutwardNormal(list[sphereOut.k], rec)
        IN  /\ RLe(dot(rec.normal, query.ray.dir), Zero)
            /\ rec.front_face <=> RLe(dot(out, query.ray.dir), Zero)
            /\ rec.normal = IF rec.front_face THEN out ELSE VNeg(out)

\* C4 (amended): normal . direction <= 0, and front_face is true exactly when
\* outward_normal . direction < 0: at a dot product of exactly 0 front_face
\* is false and the stored normal is the negated outward normal.
C4_NormalOpposesRay ==
    (sphereOut.called /\ sphereOut.rec.some) =>
        LET rec == sphereOut.rec
            out == OutwardNormal(list[sphereOut.k], rec)
        IN  /\ RLe(dot(rec.normal, query.ray.dir), Zero)
            /\ rec.front_face <=> RLt(dot(out, query.ray.dir), Zero)
            /\ rec.normal = IF rec.front_face THEN out ELSE VNeg(out)

\* a tangent hit: the outward normal is perpendicular to the ray, front_face
\* is false and the stored normal is the negated outward normal
C4_Witness ==
    /\ sphereOut.called
    /\ sphereOut.rec.some
    /\ dot(OutwardNormal(list[sphereOut.k], sphereOut.rec), query.ray.dir) = Zero
    /\ ~sphereOut.rec.front_face
    /\ sphereOut.rec.normal = VNeg(OutwardNormal(list[sphereOut.k], sphereOut.rec))

-----------------------------------------------------------------------------
(* color.rs: Color *)

black == ZeroV

\* mutant: Mul adds the components, as Add does
ColorMulAsAdd(a, b) == VAdd(a, b)

\* impl Mul for Color: component-wise product
ColorMul(a, b) == v3(RMul(a[1], b[1]), RMul(a[2], b[2]), RMul(a[3], b[3]))

\* impl Add for Color
ColorAdd(a, b) == VAdd(a, b)

-----------------------------------------------------------------------------
(* geometry.rs: the helpers of scattering *)

\* the eps of near_zero, 1e-8
NearZeroEps == Q(1, 100000000)

near_zero(v) ==
    /\ RLt(RAbs(v[1]), NearZeroEps)
    /\ RLt(RAbs(v[2]), NearZeroEps)
    /\ RLt(RAbs(v[3]), NearZeroEps)

reflect(v, n) == VSub(v, VScale(RMul(Int2Q(2), dot(v, n)), n))

\* as written, -uv.dot(n).min(-1.) is -(min(uv . n, -1))
refract(uv, n, etai_over_etat) ==
    LET cos_theta == RNeg(RMin(dot(uv, n), RNeg(One)))
        r_out_perp == VScale(etai_over_etat, VAdd(uv, VScale(cos_theta, n)))
        r_out_par ==
            VScale(RNeg(RSqrt(RAbs(RSub(One, dot(r_out_perp, r_out_perp))))), n)
    IN  VAdd(r_out_perp, r_out_par)

\* values rand_vec_bounded(-1.0, 1.0) can return, each of rational length;
\* the last has length 1 and is rejected by the loop
CubeDraws ==
    {v3(Zero, Q(1, 2), Zero), v3(Zero, Q(-1, 2), Zero),
     v3(Q(12, 25), Q(-7, 50), Zero), v3(Q(-12, 25), Q(7, 50), Zero),
     v3(Int2Q(-1), Zero, Zero)}

\* random_in_unit_sphere: the draws the rejection loop lets through
random_in_unit_sphere == {p \in CubeDraws : RLt(norm(p), One)}

\* random_unit_vec
random_unit_vec == {unit(p) : p \in random_in_unit_sphere}

\* values random::<f64>() can return, in [0, 1)
RandomF64 == {Zero, Q(1, 2), Q(99, 100)}

-----------------------------------------------------------------------------
(* material.rs: Material::scatter *)

\* Option<Scatter> with the locals of the call: some = FALSE is None
Scattered(kind, some, att, ray, cos_theta, reflectance, draw, refracted) ==
    [kind |-> kind, some |-> some, att |-> att, ray |-> ray,
     cos_theta |-> cos_theta, reflectance |-> reflectance, draw |-> draw,
     refracted |-> refracted]

\* Lambertian::scatter with random_unit_vec() = u
Lambertian_scatter(m, ray, rec, u) ==
    LET sum == VAdd(rec.normal, u)
        scatter_dir == IF near_zero(sum) THEN rec.normal ELSE sum
    IN  Scattered("Lambertian", TRUE, m.albedo,
                  [orig |-> rec.point, dir |-> scatter_dir],
                  Zero, Zero, Zero, FALSE)

\* Metal::scatter with random_in_unit_sphere() = p
Metal_scatter(m, ray, rec, p) ==
    LET reflected == reflect(unit(ray.dir), rec.normal)
        scattered == [orig |-> rec.point,
                      dir |-> VAdd(reflected, VScale(m.fuzz, p))]
    IN  Scattered("Metal", RLt(Zero, dot(scattered.dir, rec.normal)), m.albedo,
                  scattered, Zero, Zero, Zero, FALSE)

\* Dielectric::reflectance
reflectance(cosine, ref_idx) ==
    LET r0 == RPow(RDiv(RSub(One, ref_idx), RAdd(One, ref_idx)), 2)
    IN  RAdd(r0, RMul(RSub(One, r0), RPow(RSub(One, cosine), 5)))

\* the cos_theta of Dielectric::scatter: unit_dir.dot(&rec.normal).min(1.0)
DielectricCosTheta(ray, rec) == RMin(dot(unit(ray.dir), rec.normal), One)

\* Dielectric::scatter with random() = x
Dielectric_scatter(m, ray, rec, x) ==
    LET attenuation == v3(One, One, One)
        refraction_ratio == IF rec.front_face THEN RDiv(One, m.ir) ELSE m.ir
        unit_dir == unit(ray.dir)
        cos_theta == DielectricCosTheta(ray, rec)
        sin_theta == RSqrt(RSub(One, RMul(cos_theta, cos_theta)))
        cannot_refract == RLt(One, RMul(refraction_ratio, sin_theta))
        refl == reflectance(cos_theta, refraction_ratio)
        should_reflect == RLt(x, refl)
        direction == IF cannot_refract \/ should_reflect
                     THEN reflect(unit_dir, rec.normal)
                     ELSE refract(unit_dir, rec.normal, refraction_ratio)
    IN  Scattered("Dielectric", TRUE, attenuation,
                  [orig |-> rec.point, dir |-> direction],
                  cos_theta, refl, x, ~(cannot_refract \/ should_reflect))

\* rec.material.scatter(ray, rec): one outcome for each value the random
\* source can return
scatter(ray, rec) ==
    LET m == rec.material
    IN  CASE m.kind = "Lambertian" ->
                {Lambertian_scatter(m, ray, rec, u) : u \in random_unit_vec}
          [] m.kind = "Metal" ->
                {Metal_scatter(m, ray, rec, p) : p \in random_in_unit_sphere}
          [] m.kind = "Dielectric" ->
                {Dielectric_scatter(m, ray, rec, x) : x \in RandomF64}

-----------------------------------------------------------------------------
(* main.rs: ray_color *)

\* the background of ray_color: the lerp between white and sky blue
Background(ray) ==
    LET unit_dir == unit(ray.dir)
        t == RMul(Q(1, 2), RAdd(unit_dir[2], One))
    IN  VAdd(VScale(RSub(One, t), v3(One, One, One)),
             VScale(t, v3(Q(1, 2), Q(7, 10), One)))

\* world.hit(ray, 0.001, INF)
WorldHit(w, ray) == HittableList_hit(w, ray, T_MIN, INF)

\* mutant: the recursive call keeps the depth
SameDepth(depth) == depth

\* the depth ray_color passes to its recursive call
NextDepth(depth) == depth - 1

\* every sqrt ray_color takes on this ray is exact: the length of the
\* direction, the discriminants, and sin_theta if the ray hits a Dielectric
ExactRay(w, ray) ==
    /\ ray.dir # ZeroV
    /\ RIsSquare(length_squared(ray.dir))
    /\ \A k \in 1..Len(w) : ExactHit(w[k], ray)
    /\ LET rec == WorldHit(w, ray)
       IN  (rec.some /\ rec.material.kind = "Dielectric") =>
              LET c == DielectricCosTheta(ray, rec)
              IN  RIsSquare(RSub(One, RMul(c, c)))

Frame(ray, depth) == [ray |-> ray, depth |-> depth, att |-> ZeroV]

Top == stack[Len(stack)]
Pop == SubSeq(stack, 1, Len(stack) - 1)

\* depth <= 0: return black
DepthCutoff ==
    /\ stack # <<>> /\ ~result.has
    /\ Top.depth <= 0
    /\ result' = [has |-> TRUE, color |-> black]
    /\ stack' = Pop
    /\ UNCHANGED <<world, max_depth, calls, queries, scat, hitVars, imageVars, renderVars>>

\* no hit: return the background
Miss ==
    /\ stack # <<>> /\ ~result.has
    /\ Top.depth > 0
    /\ ~WorldHit(world, Top.ray).some
    /\ queries' = queries + 1
    /\ result' = [has |-> TRUE, color |-> Background(Top.ray)]
    /\ stack' = Pop
    /\ UNCHANGED <<world, max_depth, calls, scat, hitVars, imageVars, renderVars>>

\* a hit whose material absorbs the ray: return black
Absorbed ==
    /\ stack # <<>> /\ ~result.has
    /\ Top.depth > 0
    /\ LET rec == WorldHit(world, Top.ray)
       IN  /\ rec.some
           /\ \E o \in scatter(Top.ray, rec) :
                 /\ ~o.some
                 /\ scat' = [o EXCEPT !.ray = Top.ray]
    /\ queries' = queries + 1
    /\ result' = [has |-> TRUE, color |-> black]
    /\ stack' = Pop
    /\ UNCHANGED <<world, max_depth, calls, hitVars, imageVars, renderVars>>

\* a hit whose material scatters the ray: the recursive call
Recurse ==
    /\ stack # <<>> /\ ~result.has
    /\ Top.depth > 0
    /\ LET rec == WorldHit(world, Top.ray)
       IN  /\ rec.some
           /\ \E o \in scatter(Top.ray, rec) :
                 /\ o.some
                 /\ ExactRay(world, o.ray)
                 /\ scat' = [o EXCEPT !.ray = Top.ray]
                 /\ stack' = Append([stack EXCEPT ![Len(stack)].att = o.att],
                                    Frame(o.ray, NextDepth(Top.depth)))
    /\ queries' = queries + 1
    /\ calls' = calls + 1
    /\ UNCHANGED <<world, max_depth, result, hitVars, imageVars, renderVars>>

\* the recursive call has returned: return att * its color
Return ==
    /\ stack # <<>> /\ result.has
    /\ result' = [has |-> TRUE, color |-> ColorMul(Top.att, result.color)]
    /\ stack' = Pop
    /\ UNCHANGED <<world, max_depth, calls, queries, scat, hitVars, imageVars, renderVars>>

\* materials of the traced scenes
MatMirror == Metal(v3(Q(7, 10), Q(3, 5), Q(1, 2)), Q(1, 2))
MatRough == Metal(v3(One, One, One), Int2Q(2))
MatHot == Lambertian(v3(One, One, Q(3, 2)))
TraceMaterials == {MatA, MatMirror, MatRough, MatGlass, MatHot}

\* two unit spheres on the y axis, a gap of one between them, or none
Worlds ==
    {<<>>} \cup
    {<<Sphere(IntV(0, 0, 0), One, m1), Sphere(IntV(0, 3, 0), One, m2)>> :
        m1 \in TraceMaterials, m2 \in TraceMaterials}

TraceRays ==
    {[orig |-> v3(Zero, Q(3, 2), Zero), dir |-> IntV(0, -1, 0)],
     [orig |-> v3(Zero, Q(3, 2), Zero), dir |-> IntV(0, 2, 0)],
     [orig |-> IntV(0, 0, 0), dir |-> IntV(0, -1, 0)],
     [orig |-> IntV(0, -2, 0), dir |-> IntV(4, -3, 0)]}

\* the outermost call ray_color(ray, world, max_depth)
TraceInit ==
    /\ world \in Worlds
    /\ max_depth \in -1..MaxDepth
    /\ \E r \in TraceRays :
          /\ ExactRay(world, r)
          /\ stack = <<Frame(r, max_depth)>>
    /\ result = [has |-> FALSE, color |-> ZeroV]
    /\ calls = 1
    /\ queries = 0
    /\ scat = NoScatter
    /\ HitIdle
    /\ ImageIdle
    /\ RenderIdle

TraceNext == DepthCutoff \/ Miss \/ Absorbed \/ Recurse \/ Return

Spec == TraceInit /\ [][TraceNext]_vars

Finished == stack = <<>> /\ result.has

\* the top invocation can take its next step: it returns, or it makes its
\* recursive call with one of the draws of the model
CanStep ==
    /\ stack # <<>>
    /\ \/ result.has
       \/ Top.depth <= 0
       \/ LET rec == WorldHit(world, Top.ray)
          IN  rec.some =>
                 \E o \in scatter(Top.ray, rec) :
                    o.some => ExactRay(world, o.ray)

Max(a, b) == IF a < b THEN b ELSE a

InUnit(x) == RLe(Zero, x) /\ RLe(x, One)
ColorInUnit(c) == InUnit(c[1]) /\ InUnit(c[2]) /\ InUnit(c[3])

\* C5: an invocation with depth <= 0 returns black without querying the
\* scene; a call with depth max_depth has at most max_depth + 1 nested
\* invocations, each recursive call one less deep than its caller, and every
\* invocation goes on to return.
C5_DepthBoundedRecursion ==
    /\ Len(stack) <= Max(max_depth, 0) + 1
    /\ calls <= Max(max_depth, 0) + 1
    /\ queries <= Max(max_depth, 0)
    /\ queries <= calls
    /\ stack # <<>> => stack[1].depth = max_depth
    /\ \A i \in 1..(Len(stack) - 1) : stack[i + 1].depth = stack[i].depth - 1
    /\ (stack # <<>> /\ Top.depth <= 0 /\ ~result.has) => queries = calls - 1
    /\ max_depth <= 0 => (queries = 0 /\ (result.has => result.color = black))
    /\ Finished \/ CanStep

\* the recursion ran to the cutoff: max_depth + 1 invocations, the innermost
\* of depth 0 made no query, and the outermost call has returned black
C5_Witness ==
    /\ Finished
    /\ max_depth >= 2
    /\ calls = max_depth + 1
    /\ queries = max_depth
    /\ result.color = black

AlbedoInUnit(w) ==
    \A k \in 1..Len(w) :
        w[k].material.kind \in {"Lambertian", "Metal"} =>
            ColorInUnit(w[k].material.albedo)

\* C9: in a scene whose Lambertian and Metal albedos lie in [0, 1], every
\* color ray_color returns has its components in [0, 1], and every scatter
\* attenuates by a factor in [0, 1] per component.
C9_EnergyNonCreation ==
    AlbedoInUnit(world) =>
        /\ result.has => ColorInUnit(result.color)
        /\ scat.kind # "none" => ColorInUnit(scat.att)

\* a background color came back through two scatters, one of them Lambertian,
\* attenuated but not black
C9_Witness ==
    /\ AlbedoInUnit(world)
    /\ Finished
    /\ calls >= 3
    /\ \E k \in 1..Len(world) : world[k].material.kind = "Lambertian"
    /\ result.color # black
    /\ RLt(result.color[1], Q(1, 2))

\* C10 (as claimed): at every Dielectric scatter cos_theta is
\* min(1, -(unit incoming . normal)) and lies in [0, 1]; and when the ray can
\* refract and the reflectance at cos_theta is below 1, some draw refracts.
C10_DielectricCosTheta ==
    scat.kind = "Dielectric" =>
        LET rec == WorldHit(world, scat.ray)
        IN  /\ scat.cos_theta = RMin(One, RNeg(dot(unit(scat.ray.dir), rec.normal)))
            /\ InUnit(scat.cos_theta)
            /\ RLt(scat.reflectance, One) =>
                  \E o \in scatter(scat.ray, rec) : o.refracted

\* what the code does at a Dielectric: cos_theta is in [-1, 0], the
\* reflectance is at least 1 and every draw reflects
DielectricAlwaysReflects ==
    scat.kind = "Dielectric" =>
        /\ RLe(scat.cos_theta, Zero)
        /\ RLe(One, scat.reflectance)
        /\ ~scat.refracted

-----------------------------------------------------------------------------
(* image.rs: Image, merge_samples, to_ppm_list, write_ppm *)

Pixels(img) == (0..(img.w - 1)) \X (0..(img.h - 1))

\* Color::mut_const_mul
mut_const_mul(c, k) == VScale(k, c)

\* mutant: the sum is not scaled
RatioOne(n) == One

\* the ratio of merge_samples: 1.0 / (s as f64)
MergeRatio(n) == RDiv(One, Int2Q(n))

\* ndarray broadcasting of one axis of length n to length m
AxisFits(n, m) == n = m \/ n = 1

\* an index of the broadcast array, taken back to the array of axis length n
Back(i, n) == IF n = 1 THEN 0 ELSE i

\* the element-wise sum over the shape (w, h), each operand broadcast to it
BroadcastSum(a, b, w, h) ==
    [w |-> w, h |-> h,
     px |-> [p \in (0..(w - 1)) \X (0..(h - 1)) |->
                ColorAdd(a.px[<<Back(p[1], a.w), Back(p[2], a.h)>>],
                         b.px[<<Back(p[1], b.w), Back(p[2], b.h)>>])]]

\* acc + i of ndarray, for an owned acc and a borrowed i.  Equal shapes add
\* element-wise.  Otherwise i is broadcast to the shape of acc when each of
\* its axes has that length or length 1.  When only acc would have to grow,
\* ndarray 0.15 and later broadcast both operands to the common shape and
\* earlier versions panic: co says which ndarray is linked.
ArrayAdd(acc, i, co) ==
    IF AxisFits(i.w, acc.w) /\ AxisFits(i.h, acc.h)
    THEN [ok |-> TRUE, arr |-> BroadcastSum(acc, i, acc.w, acc.h)]
    ELSE IF co /\ (AxisFits(acc.w, i.w) \/ AxisFits(i.w, acc.w))
               /\ (AxisFits(acc.h, i.h) \/ AxisFits(i.h, acc.h))
    THEN [ok |-> TRUE,
          arr |-> BroadcastSum(acc, i, Max(acc.w, i.w), Max(acc.h, i.h))]
    ELSE [ok |-> FALSE, arr |-> acc]

\* the fold of merge_samples over imgs[k..]
RECURSIVE FoldAdd(_, _, _, _)
FoldAdd(imgs, k, acc, co) ==
    IF k > Len(imgs) THEN [ok |-> TRUE, arr |-> acc]
    ELSE LET r == ArrayAdd(acc, imgs[k], co)
         IN  IF r.ok THEN FoldAdd(imgs, k + 1, r.arr, co) ELSE r

\* merge_samples; images[0] panics on an empty list
merge_samples(imgs, co) ==
    IF Len(imgs) = 0 THEN Panicked
    ELSE LET ratio == MergeRatio(Len(imgs))
             w == imgs[1].w
             h == imgs[1].h
             sum == FoldAdd(imgs, 1, Image_new(w, h), co)
         IN  IF ~sum.ok THEN Panicked
             ELSE [state |-> "ok",
                   img |-> [sum.arr EXCEPT
                              !.px = [p \in Pixels(sum.arr) |->
                                         mut_const_mul(sum.arr.px[p], ratio)]]]

Min(a, b) == IF a < b THEN a ELSE b

\* (256.0 * x.sqrt().clamp(0.0, 0.999)) as u32: the floor of 256 * sqrt(x),
\* at most 255; the sqrt of a negative number is NaN, which casts to 0
GammaByte(x) ==
    IF x[1] < 0 THEN 0 ELSE Min(255, ISqrt((65536 * x[1]) \div x[2]))

\* Color::ppm: the three fields of the row "r g b"
ppm(c) == <<GammaByte(c[1]), GammaByte(c[2]), GammaByte(c[3])>>

\* the inner loop of to_ppm_list: i in 0..width, for one j
PpmRow(img, j) == [i \in 1..img.w |-> ppm(img.px[<<i - 1, j>>])]

\* mutant: the outer loop runs j upwards
RECURSIVE PpmRowsUp(_, _)
PpmRowsUp(img, j) ==
    IF j >= img.h THEN <<>> ELSE PpmRow(img, j) \o PpmRowsUp(img, j + 1)

to_ppm_list_Unreversed(img) == PpmRowsUp(img, 0)

\* the outer loop of to_ppm_list: j in (0..height).rev(), from j down
RECURSIVE PpmRowsDown(_, _)
PpmRowsDown(img, j) ==
    IF j < 0 THEN <<>> ELSE PpmRow(img, j) \o PpmRowsDown(img, j - 1)

\* Image::to_ppm_list
to_ppm_list(img) == PpmRowsDown(img, img.h - 1)

\* Image::write_ppm: the lines joined into the file, each as its fields
write_ppm(img) == <<<<"P3">>, <<img.w, img.h>>, <<255>>>> \o to_ppm_list(img)

\* the colors the rendered images are made of
Palette ==
    <<black, v3(Q(1, 4), Q(1, 2), One), v3(One, Q(1, 2), Q(1, 4)),
      v3(Q(9, 16), Q(1, 16), Q(1, 64))>>

\* a rendered w x h image; the seed shifts the colors of its pixels
Rendered(w, h, seed) ==
    [w |-> w, h |-> h,
     px |-> [p \in (0..(w - 1)) \X (0..(h - 1)) |->
                Palette[((seed + p[1] + 2 * p[2]) % Len(Palette)) + 1]]]

RenderedImages ==
    {Rendered(w, h, seed) : w \in 1..MaxDim, h \in 1..MaxDim, seed \in 0..MaxSeed}

\* main before its render loop: Vec::with_capacity(super_samples)
ImageInit ==
    /\ images = <<>>
    /\ coBroadcast \in BOOLEAN
    /\ merged = Pending
    /\ file = <<>>
    /\ HitIdle
    /\ TraceIdle
    /\ RenderIdle

\* images.push(render(...))
PushImage(img) ==
    /\ merged.state = "pending"
    /\ Len(images) < MaxImages
    /\ images' = Append(images, img)
    /\ UNCHANGED <<coBroadcast, merged, file, hitVars, traceVars, renderVars>>

\* let final_image = merge_samples(images)
MergeSamples ==
    /\ merged.state = "pending"
    /\ merged' = merge_samples(images, coBroadcast)
    /\ UNCHANGED <<images, coBroadcast, file, hitVars, traceVars, renderVars>>

\* final_image.write_ppm(&mut file)
WritePpm ==
    /\ merged.state = "ok"
    /\ file = <<>>
    /\ file' = write_ppm(merged.img)
    /\ UNCHANGED <<images, coBroadcast, merged, hitVars, traceVars, renderVars>>

ImageNext ==
    \/ \E img \in RenderedImages : PushImage(img)
    \/ MergeSamples
    \/ WritePpm

SpecImage == ImageInit /\ [][ImageNext]_vars

-----------------------------------------------------------------------------
(* Properties of merging and writing (SpecImage) *)

SameDims(a, b) == a.w = b.w /\ a.h = b.h

EqualDims == \A k \in 1..Len(images) : SameDims(images[k], images[1])

\* the sum of the colors at pixel p of imgs[k..]
RECURSIVE PixelSum(_, _, _)
PixelSum(imgs, k, p) ==
    IF k > Len(imgs) THEN ZeroV
    ELSE VAdd(imgs[k].px[p], PixelSum(imgs, k + 1, p))

ImageOrders ==
    {[i \in 1..Len(images) |-> images[f[i]]] :
        f \in Permutations(1..Len(images))}

\* C6: for a non-empty list of N images of equal dimensions w x h,
\* merge_samples returns a w x h image whose value at every pixel is the sum
\* of the N values at that pixel divided by N, whatever the order of the list.
C6_MergeIsMean ==
    (merged.state # "pending" /\ images # <<>> /\ EqualDims) =>
        /\ merged.state = "ok"
        /\ SameDims(merged.img, images[1])
        /\ \A p \in Pixels(images[1]) :
              merged.img.px[p] = VDivS(PixelSum(images, 1, p), Int2Q(Len(images)))
        /\ \A l \in ImageOrders : merge_samples(l, coBroadcast) = merged

\* two different 2 x 2 images were merged into their mean
C6_Witness ==
    /\ merged.state = "ok"
    /\ Len(images) = 2
    /\ EqualDims
    /\ images[1].w = 2 /\ images[1].h = 2
    /\ images[1] # images[2]
    /\ merged.img.px[<<1, 1>>] # images[1].px[<<1, 1>>]
    /\ merged.img.px[<<1, 1>>] =
          VDivS(VAdd(images[1].px[<<1, 1>>], images[2].px[<<1, 1>>]), Int2Q(2))

\* C7 (as claimed): merge_samples aborts whenever the list is empty or some
\* image's dimensions differ from the first image's; it returns no image then.
C7_MergeRejectsMismatch ==
    (merged.state # "pending" /\ (images = <<>> \/ ~EqualDims)) =>
        merged.state = "panic"

\* what the code does: the empty list aborts; a later image is accepted
\* whenever each of its axes has the length of the first image's or length 1
MergeAcceptsBroadcast ==
    merged.state # "pending" =>
        /\ images = <<>> => merged.state = "panic"
        /\ (images # <<>> /\ \A k \in 1..Len(images) :
                /\ AxisFits(images[k].w, images[1].w)
                /\ AxisFits(images[k].h, images[1].h)) => merged.state = "ok"

\* C8: to_ppm_list returns width * height rows, the row of buffer cell (i, j)
\* at position (height - 1 - j) * width + i, so buffer row height - 1 comes
\* first and row 0 last; write_ppm puts them, in that order, after the three
\* header lines.
C8_PpmRowOrder ==
    file # <<>> =>
        LET img == merged.img
            rows == to_ppm_list(img)
        IN  /\ Len(rows) = img.w * img.h
            /\ \A p \in Pixels(img) :
                  rows[(img.h - 1 - p[2]) * img.w + p[1] + 1] = ppm(img.px[p])
            /\ Len(file) = 3 + Len(rows)
            /\ file[1] = <<"P3">> /\ file[2] = <<img.w, img.h>> /\ file[3] = <<255>>
            /\ \A k \in 1..Len(rows) : file[3 + k] = rows[k]

\* a 2 x 2 image with four different rows was written
C8_Witness ==
    /\ file # <<>>
    /\ merged.img.w = 2 /\ merged.img.h = 2
    /\ Cardinality({file[k] : k \in 4..7}) = 4
    /\ file[4] = ppm(merged.img.px[<<0, 1>>])
    /\ file[7] = ppm(merged.img.px[<<1, 0>>])

-----------------------------------------------------------------------------
(* camera.rs: Camera, and main.rs: render (SpecRender) *)

\* the fields Camera::new computes for lookfrom (0,0,0), lookat (0,0,-1),
\* vup (0,1,0), vfov 90, aspect 2, focus_dist 1 and the aperture of main:
\* h = 1, the viewport is 4 x 2, w = (0,0,1), u = (1,0,0), v = (0,1,0)
Camera ==
    [origin |-> IntV(0, 0, 0),
     lower_left |-> IntV(-2, -1, -1),
     horizontal |-> IntV(4, 0, 0),
     vertical |-> IntV(0, 2, 0),
     u |-> IntV(1, 0, 0),
     v |-> IntV(0, 1, 0),
     w |-> IntV(0, 0, 1),
     lens_radius |-> Q(1, 20)]

\* values v3(rand_in(-1, 1), rand_in(-1, 1), 0) can take, each of rational
\* length; the last has length 13/10 and is rejected by the loop
SquareDraws ==
    {v3(Zero, Zero, Zero), v3(Q(3, 5), Q(-4, 5), Zero),
     v3(Q(26, 29), Q(273, 290), Zero)}

\* rand_in_unit_disk: the draws with length <= 1
rand_in_unit_disk == {p \in SquareDraws : RLe(norm(p), One)}

\* Camera::get_ray(s, t) with rand_in_unit_disk() = d
get_ray(cam, s, t, d) ==
    LET rd == VScale(cam.lens_radius, d)
        offset == VAdd(VScale(rd[1], cam.u), VScale(rd[2], cam.v))
    IN  [orig |-> VAdd(cam.origin, offset),
         dir |-> VSub(VSub(VAdd(VAdd(cam.lower_left, VScale(s, cam.horizontal)),
                                VScale(t, cam.vertical)),
                           cam.origin),
                      offset)]

\* (k as f64 + random::<f64>()) / (count - 1) as f64
Jitter(k, r, count) == RDiv(RAdd(Int2Q(k), r), Int2Q(count - 1))

\* colors ray_color returns to render: black, and the white of the background
RayColors == {black, v3(One, One, One)}

\* render is entered: Image::new(width, height), j = 0, i = 0, color black
RenderInit ==
    /\ \E width \in 2..MaxWidth, height \in 2..MaxHeight, samples \in 1..MaxSamples :
          render = [width |-> width, height |-> height, samples |-> samples,
                    i |-> 0, j |-> 0, n |-> 0, color |-> black,
                    image |-> Image_new(width, height), returned |-> FALSE]
    /\ sample = NoSample
    /\ HitIdle
    /\ TraceIdle
    /\ ImageIdle

\* one pass of the loop over the samples of pixel (i, j)
TakeSample ==
    /\ ~render.returned
    /\ render.j < render.height /\ render.i < render.width
    /\ render.n < render.samples
    /\ \E r1 \in RandomF64, r2 \in RandomF64, d \in rand_in_unit_disk,
          c \in RayColors :
          LET u == Jitter(render.i, r1, render.width)
              v == Jitter(render.j, r2, render.height)
          IN  /\ sample' = [has |-> TRUE, i |-> render.i, j |-> render.j,
                            u |-> u, v |-> v,
                            ray |-> get_ray(Camera, u, v, d)]
              /\ render' = [render EXCEPT !.color = ColorAdd(@, c),
                                          !.n = @ + 1]
    /\ UNCHANGED <<hitVars, traceVars, imageVars>>

\* image.img[(i, j)] = Color(color.0 / samples), and on to the next pixel
StorePixel ==
    /\ ~render.returned
    /\ render.j < render.height /\ render.i < render.width
    /\ render.n = render.samples
    /\ render' =
          [render EXCEPT
              !.image.px[<<render.i, render.j>>] =
                  VDivS(render.color, Int2Q(render.samples)),
              !.color = black,
              !.n = 0,
              !.i = IF render.i + 1 < render.width THEN render.i + 1 ELSE 0,
              !.j = IF render.i + 1 < render.width THEN render.j
                    ELSE render.j + 1]
    /\ UNCHANGED <<sample, hitVars, traceVars, imageVars>>

\* both loops are over: render returns image
ReturnImage ==
    /\ ~render.returned
    /\ render.j = render.height
    /\ render' = [render EXCEPT !.returned = TRUE]
    /\ UNCHANGED <<sample, hitVars, traceVars, imageVars>>

RenderNext == TakeSample \/ StorePixel \/ ReturnImage

SpecRender == RenderInit /\ [][RenderNext]_vars

-----------------------------------------------------------------------------
(* Properties of render (SpecRender) *)

InDomain(x) == RLe(Zero, x) /\ RLe(x, One)

\* C12 (as claimed): for width, height >= 2, every u and v that render passes
\* to Camera::get_ray lies in [0, 1], the last column and the last row
\* included.
C12_JitterInCameraDomain ==
    (sample.has /\ render.width >= 2 /\ render.height >= 2) =>
        InDomain(sample.u) /\ InDomain(sample.v)

\* what the code does keep: 0 <= u < width / (width - 1), and likewise for v;
\* u and v are in [0, 1] for every column but the last and every row but the
\* last, and for the last ones only when the draw is 0
JitterOvershootsByOnePixel ==
    sample.has =>
        /\ RLe(Zero, sample.u)
        /\ RLt(sample.u, Q(render.width, render.width - 1))
        /\ RLe(Zero, sample.v)
        /\ RLt(sample.v, Q(render.height, render.height - 1))
        /\ sample.i < render.width - 1 => InDomain(sample.u)
        /\ sample.j < render.height - 1 => InDomain(sample.v)

====
